---- MODULE Spec2Model ----
(***************************************************************************)
(* Model of the trending-hashtag aggregation run                           *)
(* (apify_trending_for_hashtags.get_trending_hashtags_for_list).           *)
(*                                                                         *)
(* Text is a sequence of one-character strings.  Provider payloads are     *)
(* dynamically typed Python values, kept as tagged records.                *)
(***************************************************************************)
EXTENDS Integers, Sequences, FiniteSets, TLC

\* ------------------------------------------------------------------------
\* Python values
\* ------------------------------------------------------------------------
Str(s) == [t |-> "str", s |-> s]
PyInt(n) == [t |-> "int", n |-> n]
None == [t |-> "none"]
List(xs) == [t |-> "list", xs |-> xs]
\* a dict is its sequence of <<key, value>> entries, in insertion order
Dict(kv) == [t |-> "dict", kv |-> kv]

IsStr(v) == v.t = "str"
IsDict(v) == v.t = "dict"
IsList(v) == v.t = "list"

\* Python truth value of v
Truthy(v) ==
    CASE v.t = "str" -> v.s # <<>>
      [] v.t = "int" -> v.n # 0
      [] v.t = "none" -> FALSE
      [] v.t = "list" -> v.xs # <<>>
      [] v.t = "dict" -> v.kv # <<>>

\* a or b
Or(a, b) == IF Truthy(a) THEN a ELSE b

HasKey(d, k) == \E i \in 1..Len(d.kv) : d.kv[i][1] = k

\* d.get(k, default) on a dict d
Get(d, k, default) ==
    IF HasKey(d, k)
    THEN d.kv[CHOOSE i \in 1..Len(d.kv) : d.kv[i][1] = k][2]
    ELSE default

\* fold of Op over the elements of seq, left to right
Fold(Op(_, _), acc, seq) ==
    LET it[i \in 0..Len(seq)] == IF i = 0 THEN acc ELSE Op(it[i - 1], seq[i])
    IN  it[Len(seq)]

\* ------------------------------------------------------------------------
\* Text
\* ------------------------------------------------------------------------
NonWordChars == {"#", " ", "'", "[", "]", "{", "}", ",", ":"}
IsWord(c) == c \notin NonWordChars
IsSpace(c) == c = " "

RECURSIVE LStrip(_, _)
\* s without its leading characters that are in the set cs
LStrip(s, cs) ==
    IF s # <<>> /\ Head(s) \in cs THEN LStrip(Tail(s), cs) ELSE s

RECURSIVE RStrip(_, _)
RStrip(s, cs) ==
    IF s # <<>> /\ s[Len(s)] \in cs THEN RStrip(SubSeq(s, 1, Len(s) - 1), cs) ELSE s

\* str.strip()
Strip(s) == RStrip(LStrip(s, {" "}), {" "})

\* str.replace(c, "")
Remove(s, c) == SelectSeq(s, LAMBDA x : x # c)

RECURSIVE RunEnd(_, _)
\* index of the last character of the run of word characters that starts at i
RunEnd(s, i) ==
    IF i + 1 <= Len(s) /\ IsWord(s[i + 1]) THEN RunEnd(s, i + 1) ELSE i

RECURSIVE FindFrom(_, _)
FindFrom(s, i) ==
    IF i > Len(s) THEN <<>>
    ELSE IF s[i] = "#" /\ i + 1 <= Len(s) /\ IsWord(s[i + 1])
         THEN LET e == RunEnd(s, i + 1)
              IN  <<SubSeq(s, i, e)>> \o FindFrom(s, e + 1)
         ELSE FindFrom(s, i + 1)

\* hashtag_pattern.findall(s) for the pattern #\w+ : the non-overlapping
\* matches, left to right
FindAll(s) == FindFrom(s, 1)

\* s matches #\w+ entirely
IsHashtagToken(s) ==
    /\ Len(s) >= 2
    /\ s[1] = "#"
    /\ \A i \in 2..Len(s) : IsWord(s[i])

Digit(n) == <<"0", "1", "2", "3", "4", "5", "6", "7", "8", "9">>[n + 1]

RECURSIVE Repr(_)
\* repr(v); a dict key is an identifier, kept as one word character
Repr(v) ==
    CASE v.t = "str" -> <<"'">> \o v.s \o <<"'">>
      [] v.t = "int" -> <<Digit(v.n)>>
      [] v.t = "none" -> <<"N", "o", "n", "e">>
      [] v.t = "list" ->
            <<"[">> \o
            Fold(LAMBDA acc, i :
                    acc \o (IF i > 1 THEN <<",", " ">> ELSE <<>>) \o Repr(v.xs[i]),
                 <<>>, [i \in 1..Len(v.xs) |-> i])
            \o <<"]">>
      [] v.t = "dict" ->
            <<"{">> \o
            Fold(LAMBDA acc, i :
                    acc \o (IF i > 1 THEN <<",", " ">> ELSE <<>>)
                        \o <<"'", v.kv[i][1], "'", ":", " ">> \o Repr(v.kv[i][2]),
                 <<>>, [i \in 1..Len(v.kv) |-> i])
            \o <<"}">>

\* str(v), also the text an f-string substitutes for v
PyStr(v) == IF v.t = "str" THEN v.s ELSE Repr(v)

\* ------------------------------------------------------------------------
\* The weighted tally: a Python dict, kept as its <<token, weight>> entries
\* in insertion order
\* ------------------------------------------------------------------------
InTally(tr, tok) == \E i \in 1..Len(tr) : tr[i][1] = tok

\* trending.get(tok, 0)
WeightOf(tr, tok) ==
    IF InTally(tr, tok)
    THEN tr[CHOOSE i \in 1..Len(tr) : tr[i][1] = tok][2]
    ELSE 0

\* an update that stores the weight instead of adding it
BumpOverwrite(tr, tok, w) ==
    IF InTally(tr, tok)
    THEN [i \in 1..Len(tr) |-> IF tr[i][1] = tok THEN <<tok, w>> ELSE tr[i]]
    ELSE Append(tr, <<tok, w>>)

\* trending[tok] = trending.get(tok, 0) + w
Bump(tr, tok, w) ==
    IF InTally(tr, tok)
    THEN [i \in 1..Len(tr) |-> IF tr[i][1] = tok THEN <<tok, tr[i][2] + w>> ELSE tr[i]]
    ELSE Append(tr, <<tok, w>>)

\* the local variable tag_with_hash, unbound until its first assignment
Unbound == [bound |-> FALSE, s |-> <<>>]
Bound(s) == [bound |-> TRUE, s |-> s]

\* The extraction state: the tally, tag_with_hash, and the exception raised
\* ("" while none is)
Raise(st, e) == [st EXCEPT !.ex = e]

\* for m in hashtag_pattern.findall(s): trending[m] = trending.get(m, 0) + w
Scan(st, s, w) ==
    [st EXCEPT !.tr = Fold(LAMBDA tr, m : Bump(tr, m, w), st.tr, FindAll(s))]

\* iter(v): a str yields its characters, a dict its keys, an int or None
\* is not iterable
Iter(v) ==
    CASE v.t = "list" -> [ok |-> TRUE, xs |-> v.xs]
      [] v.t = "str" -> [ok |-> TRUE, xs |-> [i \in 1..Len(v.s) |-> Str(<<v.s[i]>>)]]
      [] v.t = "dict" -> [ok |-> TRUE, xs |-> [i \in 1..Len(v.kv) |-> Str(<<v.kv[i][1]>>)]]
      [] OTHER -> [ok |-> FALSE, xs |-> <<>>]

GoogleFields == <<"title", "snippet", "description", "plainText", "text">>
AiFields == <<"aiOverview", "aiModeResults", "aiOverviews">>

\* one element of organicResults
GoogleResult(st, result) ==
    Fold(LAMBDA a, field :
            LET val == IF IsDict(result) THEN Get(result, field, None) ELSE None
            IN  IF IsStr(val) THEN Scan(a, val.s, 1) ELSE a,
         st, GoogleFields)

\* one element of relatedQueries
GoogleRelated(st, r) ==
    LET text_to_check ==
            IF IsStr(r) THEN r
            ELSE IF IsDict(r)
                 THEN Or(Or(Or(Get(r, "text", None), Get(r, "query", None)),
                            Get(r, "title", None)), Str(<<>>))
                 ELSE Str(PyStr(r))
    IN  IF IsStr(text_to_check) THEN Scan(st, text_to_check.s, 1) ELSE st

\* one of the AI-summary fields of an item
GoogleAi(st, item, ai_field) ==
    LET ai_val == Get(item, ai_field, None)
    IN  IF IsStr(ai_val) THEN Scan(st, ai_val.s, 1)
        ELSE IF IsList(ai_val)
             THEN Fold(LAMBDA a, sub : IF IsStr(sub) THEN Scan(a, sub.s, 1) ELSE a,
                       st, ai_val.xs)
             ELSE st

\* the body of "for item in google_items"
GoogleItem(st, item) ==
    IF st.ex # "" THEN st
    ELSE IF ~IsDict(item) THEN Raise(st, "AttributeError")
    ELSE
      LET organic == Iter(Or(Get(item, "organicResults", None), List(<<>>)))
          related == Iter(Or(Get(item, "relatedQueries", None), List(<<>>)))
      IN  IF ~organic.ok THEN Raise(st, "TypeError")
          ELSE LET s1 == Fold(GoogleResult, st, organic.xs)
               IN  IF ~related.ok THEN Raise(s1, "TypeError")
                   ELSE Fold(LAMBDA a, f : GoogleAi(a, item, f),
                             Fold(GoogleRelated, s1, related.xs), AiFields)

HashtagsWord == <<"h", "a", "s", "h", "t", "a", "g", "s">>

\* 'hashtags' in v, for a truthy v; ok is FALSE where Python raises TypeError
ContainsHashtags(v) ==
    CASE v.t = "dict" -> [ok |-> TRUE, in |-> HasKey(v, "hashtags")]
      [] v.t = "list" -> [ok |-> TRUE, in |-> \E i \in 1..Len(v.xs) : v.xs[i] = Str(HashtagsWord)]
      [] v.t = "str" ->
            [ok |-> TRUE,
             in |-> \E i \in 1..Len(v.s) :
                       /\ i + 7 <= Len(v.s)
                       /\ SubSeq(v.s, i, i + 7) = HashtagsWord]
      [] OTHER -> [ok |-> FALSE, in |-> FALSE]

\* the body of "for hashtag in entities['hashtags']"
TwitterEntity(st, hashtag) ==
    IF st.ex # "" THEN st
    ELSE IF ~IsDict(hashtag) THEN Raise(st, "AttributeError")
    ELSE
      LET tag == Get(hashtag, "text", Str(<<>>))
          twh == IF Truthy(tag) THEN Bound(<<"#">> \o PyStr(tag)) ELSE st.twh
      IN  IF ~twh.bound THEN Raise(st, "UnboundLocalError")
          ELSE [st EXCEPT !.twh = twh, !.tr = Bump(st.tr, twh.s, 2)]

\* the body of "for tweet in twitter_items"
TwitterTweet(st, tweet) ==
    IF st.ex # "" THEN st
    ELSE IF ~IsDict(tweet) THEN Raise(st, "AttributeError")
    ELSE
      LET text == Or(Get(tweet, "full_text", Str(<<>>)), Get(tweet, "text", Str(<<>>)))
          entities == Get(tweet, "entities", Dict(<<>>))
          has == ContainsHashtags(entities)
      IN  IF ~IsStr(text) THEN Raise(st, "TypeError")
          ELSE
            LET s1 == Scan(st, text.s, 2)
            IN  IF ~Truthy(entities) THEN s1
                ELSE IF ~has.ok THEN Raise(s1, "TypeError")
                ELSE IF ~has.in THEN s1
                ELSE IF ~IsDict(entities) THEN Raise(s1, "TypeError")
                ELSE LET hs == Iter(Get(entities, "hashtags", None))
                     IN  IF ~hs.ok THEN Raise(s1, "TypeError")
                         ELSE Fold(TwitterEntity, s1, hs.xs)

\* f'#{name.strip().replace("#", "")}' and its tally update
InstagramCredit(st, name) ==
    LET twh == Bound(<<"#">> \o Remove(Strip(name), "#"))
    IN  [st EXCEPT !.twh = twh, !.tr = Bump(st.tr, twh.s, 2)]

\* the body of "for tag in related_tags"
InstagramTag(st, tag) ==
    IF st.ex # "" THEN st
    ELSE IF IsStr(tag) THEN InstagramCredit(st, tag.s)
    ELSE IF IsDict(tag) /\ HasKey(tag, "name")
         THEN LET name == Get(tag, "name", None)
              IN  IF IsStr(name) THEN InstagramCredit(st, name.s)
                  ELSE Raise(st, "AttributeError")
         ELSE st

\* the body of "for post in instagram_items"
InstagramPost(st, post) ==
    IF st.ex # "" THEN st
    ELSE IF ~IsDict(post) THEN Raise(st, "AttributeError")
    ELSE
      LET caption == Get(post, "caption", Str(<<>>))
          related_tags == Iter(Or(Get(post, "relatedHashtags", List(<<>>)),
                                  Get(post, "related_hashtags", List(<<>>))))
      IN  IF Truthy(caption) /\ ~IsStr(caption) THEN Raise(st, "TypeError")
          ELSE
            LET s1 == IF Truthy(caption) THEN Scan(st, caption.s, 2) ELSE st
            IN  IF ~related_tags.ok THEN Raise(s1, "TypeError")
                ELSE Fold(InstagramTag, s1, related_tags.xs)

\* the three providers, in the order the run calls them
Google == 1
Twitter == 2
Instagram == 3
Providers == {Google, Twitter, Instagram}

\* the extraction loop of provider p over its fetched items
Extract(p, st, its) ==
    CASE p = Google -> Fold(GoogleItem, st, its)
      [] p = Twitter -> Fold(TwitterTweet, st, its)
      [] p = Instagram -> Fold(InstagramPost, st, its)

\* ------------------------------------------------------------------------
\* Configuration (module constants of the program)
\* ------------------------------------------------------------------------
APIFY_CALL_RETRIES == 3
APIFY_CALL_BACKOFF_SECONDS == 2
\* sorted_hashtags[:5]
TopN == 5

\* 2 ** n
RECURSIVE Pow2(_)
Pow2(n) == IF n = 0 THEN 1 ELSE 2 * Pow2(n - 1)

\* a backoff that grows linearly instead of doubling
SleepTimeLinear(k) == APIFY_CALL_BACKOFF_SECONDS * k

\* sleep_time = APIFY_CALL_BACKOFF_SECONDS * (2 ** (attempt - 1))
SleepTime(k) == APIFY_CALL_BACKOFF_SECONDS * Pow2(k - 1)

\* ------------------------------------------------------------------------
\* Query normalisation
\* ------------------------------------------------------------------------
StartsWith(s, c) == s # <<>> /\ s[1] = c

QueryFields == <<"title", "text", "query", "q", "searchQuery", "snippet">>

\* the fields of QueryFields that record tag holds as a non-blank str
FieldsHeld(tag) ==
    SelectSeq(QueryFields,
              LAMBDA key : HasKey(tag, key) /\ IsStr(Get(tag, key, None))
                              /\ Strip(Get(tag, key, None).s) # <<>>)

\* index of the first c in s, 0 if there is none
IndexOf(s, c) ==
    IF \E i \in 1..Len(s) : s[i] = c
    THEN CHOOSE i \in 1..Len(s) : s[i] = c /\ \A j \in 1..(i - 1) : s[j] # c
    ELSE 0

\* s.split(c)
RECURSIVE Split(_, _)
Split(s, c) ==
    IF IndexOf(s, c) = 0 THEN <<s>>
    ELSE <<SubSeq(s, 1, IndexOf(s, c) - 1)>>
            \o Split(SubSeq(s, IndexOf(s, c) + 1, Len(s)), c)

\* s.replace(c, d) for single characters
Replace(s, c, d) == [i \in 1..Len(s) |-> IF s[i] = c THEN d ELSE s[i]]

\* urlparse(u).path and urlparse(u).query for a text u without scheme,
\* host, parameters and fragment
UrlPath(u) == IF IndexOf(u, "?") = 0 THEN u ELSE SubSeq(u, 1, IndexOf(u, "?") - 1)
UrlQuery(u) == IF IndexOf(u, "?") = 0 THEN <<>> ELSE SubSeq(u, IndexOf(u, "?") + 1, Len(u))

\* unquote_plus on texts without percent escapes
UnquotePlus(s) == Replace(s, "+", " ")

\* parse_qs(query)["q"]: the decoded values of the fields named q; a field
\* without "=" or with a blank value is dropped
QValues(qtext) ==
    LET fields == SelectSeq(Split(qtext, "&"),
                            LAMBDA f : /\ IndexOf(f, "=") # 0
                                       /\ SubSeq(f, 1, IndexOf(f, "=") - 1) = <<"q">>
                                       /\ IndexOf(f, "=") < Len(f))
    IN  [i \in 1..Len(fields) |->
            UnquotePlus(SubSeq(fields[i], IndexOf(fields[i], "=") + 1, Len(fields[i])))]

\* the URL rule: the q parameter, else the path with '-' and '_' turned into
\* spaces; found is FALSE when the rule gives nothing
UrlRule(tag) ==
    IF HasKey(tag, "url") /\ IsStr(Get(tag, "url", None))
    THEN LET u == Get(tag, "url", None).s
             qs == QValues(UrlQuery(u))
             path == LStrip(RStrip(UrlPath(u), {"/"}), {"/"})
         IN  IF qs # <<>>
             THEN [found |-> TRUE, s |-> Strip(UnquotePlus(qs[1]))]
             ELSE IF path # <<>>
                  THEN [found |-> TRUE, s |-> Replace(Replace(path, "-", " "), "_", " ")]
                  ELSE [found |-> FALSE, s |-> <<>>]
    ELSE [found |-> FALSE, s |-> <<>>]

\* normalize_query_item: a str gives the trimmed string, a record its first
\* usable field, else what the URL rule finds, else str(tag).  The branch
\* for a string that looks like a literal record needs the trimmed text to
\* start with "{", which no item that passed the '#' filter of the caller
\* does.
normalize_query_item(tag) ==
    IF IsStr(tag) THEN Strip(tag.s)
    ELSE IF IsDict(tag)
         THEN IF FieldsHeld(tag) # <<>>
              THEN Strip(Get(tag, Head(FieldsHeld(tag)), None).s)
              ELSE IF UrlRule(tag).found THEN UrlRule(tag).s ELSE PyStr(tag)
         ELSE PyStr(tag)

\* a pass that does not consult the set of queries already seen
NormalizeItemUnseen(acc, item) ==
    IF IsStr(item) /\ StartsWith(item.s, "#")
    THEN LET q0 == normalize_query_item(item)
             q == Strip(q0)
         IN  IF q0 = <<>> \/ q = <<>> THEN acc
             ELSE <<Append(acc[1], q), acc[2] \cup {q}>>
    ELSE acc

\* one pass of "for item in hashtags" over the pair <<normalized, seen>>
NormalizeItem(acc, item) ==
    IF IsStr(item) /\ StartsWith(item.s, "#")
    THEN LET q0 == normalize_query_item(item)
             q == Strip(q0)
         IN  IF q0 = <<>> \/ q = <<>> \/ q \in acc[2] THEN acc
             ELSE <<Append(acc[1], q), acc[2] \cup {q}>>
    ELSE acc

\* the normalized query sequence built from the input
Normalize(hs) == Fold(NormalizeItem, <<<<>>, {}>>, hs)[1]

\* search_phrase = query_text.lstrip("#").strip()
SearchPhrase(query_text) == Strip(LStrip(query_text, {"#"}))

\* ------------------------------------------------------------------------
\* Ranking
\* ------------------------------------------------------------------------
\* an insertion in front of the entries of equal weight: a sort that is not
\* stable
InsertDescUnstable(acc, e) ==
    LET n == Cardinality({i \in 1..Len(acc) : acc[i][2] > e[2]})
    IN  SubSeq(acc, 1, n) \o <<e>> \o SubSeq(acc, n + 1, Len(acc))

\* e is placed behind every entry of the descending sequence acc whose
\* weight is at least its own: entries of equal weight keep their order
InsertDesc(acc, e) ==
    LET n == Cardinality({i \in 1..Len(acc) : acc[i][2] >= e[2]})
    IN  SubSeq(acc, 1, n) \o <<e>> \o SubSeq(acc, n + 1, Len(acc))

\* sorted(trending.items(), key=lambda x: x[1], reverse=True)
SortedHashtags(tr) == Fold(InsertDesc, <<>>, tr)

\* [hashtag for hashtag, _ in sorted_hashtags[:5]]
TopOf(sorted) ==
    [i \in 1..(IF Len(sorted) < TopN THEN Len(sorted) ELSE TopN) |-> sorted[i][1]]

\* ------------------------------------------------------------------------
\* The environment: inputs, provider returns and dataset contents
\* ------------------------------------------------------------------------
\* longest input list of a run
MaxItems == 2
\* number of non-empty result-sets the providers deliver in one run
MaxResults == 2
\* longest input list given to the normaliser alone
MaxNormItems == 4

h_a == <<"#", "a">>
h_b == <<"#", "b">>

\* candidate items of a run: two hashtags (one padded) and a keyword
Candidates == {Str(h_a), Str(h_b \o <<" ">>), Str(<<"x">>)}

\* candidate items given to the normaliser alone
NormCandidates ==
    {Str(<<"#", "A">>), Str(h_a), Str(h_b), Str(h_a \o <<" ">>), Str(<<" ">> \o h_a),
     Str(<<" ">> \o h_b \o <<" ">>), Str(<<"#">>), Str(<<"a">>), Str(<<>>), PyInt(5)}

SeqsUpTo(S, n) == UNION {[1..k -> S] : k \in 0..n}

\* the dataset id a run of provider p for the q-th query gets
DatasetId(q, p) == Str(<<"d", Digit(q), Digit(p)>>)

\* what client.actor(...).call(...) can return for the q-th query: a run
\* record with its dataset id, a run record without one, or nothing
RunHandle(q, p) == Dict(<< <<"id", Str(<<"r">>)>>, <<"defaultDatasetId", DatasetId(q, p)>> >>)
RunWithoutDataset == Dict(<< <<"id", Str(<<"r">>)>> >>)
Returns(q, p) == {RunHandle(q, p), RunWithoutDataset, None}

\* result-sets of the web-search provider
GoogleClean ==
    << Dict(<< <<"organicResults",
                 List(<< Dict(<< <<"title", Str(h_a)>>,
                                 <<"snippet", Str(<<"x", " ", "#", "A">>)>>,
                                 <<"text", PyInt(5)>> >>),
                         PyInt(5) >>)>>,
               <<"relatedQueries",
                 List(<< Str(h_b), Dict(<< <<"query", Str(<<"#", "c">>)>> >>), None >>)>>,
               <<"aiOverview", List(<< Str(<<"#", "d">>), PyInt(5) >>)>> >>) >>
GoogleRepeated ==
    << Dict(<< <<"organicResults",
                 List(<< Dict(<< <<"title", Str(h_a)>>, <<"snippet", Str(h_a)>> >>) >>)>> >>) >>
GoogleMalformed ==
    << Dict(<< <<"organicResults", PyInt(5)>> >>) >>

\* result-sets of the microblog provider
TwitterClean ==
    << Dict(<< <<"full_text", Str(h_a \o <<" ">> \o <<"#", "e">>)>>,
               <<"entities", Dict(<< <<"hashtags",
                     List(<< Dict(<< <<"text", Str(<<"f">>)>> >>) >>)>> >>)>> >>) >>
TwitterEmptyTag ==
    << Dict(<< <<"full_text", None>>,
               <<"text", Str(h_a)>>,
               <<"entities", Dict(<< <<"hashtags",
                     List(<< Dict(<< <<"text", Str(h_b)>> >>),
                             Dict(<< <<"text", Str(<<>>)>> >>) >>)>> >>)>> >>) >>
TwitterNoTag ==
    << Dict(<< <<"entities", Dict(<< <<"hashtags", List(<< Dict(<<>>) >>)>> >>)>> >>) >>
TwitterMalformed ==
    << Dict(<< <<"full_text", PyInt(5)>> >>) >>

\* result-sets of the photo-network provider
InstagramClean ==
    << Dict(<< <<"caption", Str(h_a \o <<" ">> \o <<"#", "g">>)>>,
               <<"relatedHashtags",
                 List(<< Str(<<"h">>),
                         Dict(<< <<"name", Str(<<" ", "#", "i", " ">>)>> >>),
                         PyInt(5),
                         Dict(<<>>) >>)>> >>) >>
InstagramOddTags ==
    << Dict(<< <<"related_hashtags",
                 List(<< Str(<<>>), Str(<<"a", " ", "b">>) >>)>> >>) >>
InstagramMalformed ==
    << Dict(<< <<"caption", Str(h_a)>>,
               <<"relatedHashtags", List(<< Dict(<< <<"name", None>> >>) >>)>> >>) >>

\* the non-empty result-sets provider p can deliver
Datasets(p) ==
    CASE p = Google -> {GoogleClean, GoogleRepeated, GoogleMalformed}
      [] p = Twitter -> {TwitterClean, TwitterEmptyTag, TwitterNoTag, TwitterMalformed}
      [] p = Instagram -> {InstagramClean, InstagramOddTags, InstagramMalformed}

\* the tally increment per token found in provider p's results
Weight(p) == IF p = Google THEN 1 ELSE 2

\* ------------------------------------------------------------------------
\* State
\* ------------------------------------------------------------------------
VARIABLES
    token,        \* APIFY_API_TOKEN is set
    hashtags,     \* the argument of the run
    pc,           \* position of the run
    exc,          \* the exception that ended the run ("" if none)
    normalized,   \* the normalized query sequence
    qi,           \* processed: index of the query being processed
    prov,         \* the provider whose loop, fetch or extraction is next
    attempt,      \* loop variable of the retry loops
    run,          \* run_google, run_twitter, run_instagram
    items,        \* google_items, twitter_items, instagram_items
    trending,     \* the weighted tally
    tag_with_hash,
    result,       \* the value returned
    calls,        \* invocations made in the retry loop being executed
    waited,       \* seconds slept in the retry loop being executed
    invoked,      \* some provider was invoked in this run
    exhausted,    \* providers whose every attempt failed for this query
    fetched,      \* dataset id of each result-set fetched for this query
    tally0,       \* the tally as it was when this query was entered
    nresults,     \* non-empty result-sets delivered so far
    credit,       \* provider results processed: token -> summed provider weight
    caller,       \* who runs the aggregator: a direct call, main() or the API handler
    trending_hashtags,   \* the variable of that name in main() and the handler
    output,       \* what the pipeline produced
    data,         \* FileCache: self._data
    file,         \* FileCache: the file at self.path
    tmpfile,      \* FileCache: the file at self.path + '.tmp'
    now,          \* time.time()
    cpc,          \* FileCache: position of the method being executed
    cop,          \* FileCache: the method called last and its key
    ret,          \* FileCache: the value get returned last
    last,         \* per key, the record of its most recent set in this process
    queries,      \* fetch_all_parallel: the queries submitted, one worker each
    futures,      \* fetch_all_parallel: the state of each worker's future
    outcome,      \* fetch_all_parallel: what each finished worker returned
    results,      \* fetch_all_parallel: the mapping query -> response
    ppc,          \* fetch_all_parallel: position
    tpc,          \* get_trending_hashtags_with_tools: position
    raw_queries,  \* its argument
    to_process,
    cached_results,
    need_query,
    fresh_results,
    merged,       \* the mapping it returns
    ti,           \* index of its loop over to_process or over fresh_results
    opened,       \* this call has constructed the FileCache
    sent,         \* the queries this call has handed to the dispatcher
    hits,         \* queries of this call with an entry in force when looked up
    wrote,        \* per query, when a fresh response was last written for it
    tag,          \* normalize_query_item: its argument
    query,        \* normalize_query_item: the value it returned
    wpc,          \* two writing processes: the position of each
    wdata,        \* two writing processes: self._data of each
    inodes,       \* the text of every file created so far
    names,        \* the file the store path and the temporary path name
    fd            \* two writing processes: the file each has open

\* the pipeline around the run
pipelineVars == <<caller, trending_hashtags, output>>

\* the cache layer
cacheVars == <<data, file, tmpfile, now, cpc, cop, ret, last>>

\* the parallel dispatcher
poolVars == <<queries, futures, outcome, results, ppc>>

\* the integration of normaliser, cache and dispatcher
toolVars == <<tpc, raw_queries, to_process, cached_results, need_query,
              fresh_results, merged, ti, opened, sent, hits, wrote>>

\* the query normaliser called on its own
recordVars == <<tag, query>>

\* two processes writing one cache file
raceVars == <<wpc, wdata, inodes, names, fd>>

\* the auxiliary tooling
auxVars == <<cacheVars, poolVars, toolVars, recordVars, raceVars>>

\* what a run of the aggregator does not assign
inputVars == <<token, hashtags, pipelineVars, auxVars>>
loopVars == <<prov, attempt, calls, waited>>
queryVars == <<qi, run, exhausted, fetched, tally0>>
tallyVars == <<trending, tag_with_hash, credit>>

vars == <<inputVars, pc, exc, normalized, loopVars, queryVars, items, tallyVars,
          result, invoked, nresults>>

NoRuns == [p \in Providers |-> None]
Unset == [shape |-> "unset"]
EmptyList == [shape |-> "list", xs |-> <<>>]
NoOutput == [kind |-> "none"]

\* a store without entries; no file on disk
EmptyStore == [k \in {} |-> None]
Absent == [kind |-> "absent"]
Partial == [kind |-> "partial"]
StoreFile(d) == [kind |-> "store", store |-> d]
NoCall == [op |-> "none"]

\* the cache layer is not in use
CacheIdle ==
    /\ data = EmptyStore
    /\ file = Absent
    /\ tmpfile = Absent
    /\ now = 0
    /\ cpc = "idle"
    /\ cop = NoCall
    /\ ret = None
    /\ last = EmptyStore

\* the dispatcher is not in use
PoolIdle ==
    /\ queries = <<>>
    /\ futures = <<>>
    /\ outcome = <<>>
    /\ results = EmptyStore
    /\ ppc = "idle"

\* get_trending_hashtags_with_tools is not in use
ToolsIdle ==
    /\ tpc = "idle"
    /\ raw_queries = <<>>
    /\ to_process = <<>>
    /\ cached_results = EmptyStore
    /\ need_query = <<>>
    /\ fresh_results = EmptyStore
    /\ merged = EmptyStore
    /\ ti = 1
    /\ opened = FALSE
    /\ sent = {}
    /\ hits = EmptyStore
    /\ wrote = EmptyStore

\* normalize_query_item is not called on its own
RecordIdle ==
    /\ tag = None
    /\ query = Unset

Writers == {1, 2}
\* no file: what a name that does not exist refers to, and what a process
\* without an open file holds
NoFile == 0

\* no second process is involved
RaceIdle ==
    /\ wpc = [w \in Writers |-> "new"]
    /\ wdata = [w \in Writers |-> EmptyStore]
    /\ inodes = <<>>
    /\ names = [path |-> NoFile, tmp |-> NoFile]
    /\ fd = [w \in Writers |-> NoFile]

\* the pipeline is not involved: the aggregator is called directly
PipelineInit ==
    /\ caller = "direct"
    /\ trending_hashtags = EmptyList
    /\ output = NoOutput
NoItems == [p \in Providers |-> <<>>]

\* the variables of a run before its first statement
RunInit ==
    /\ exc = ""
    /\ normalized = <<>>
    /\ qi = 0
    /\ prov = Google
    /\ attempt = 1
    /\ run = NoRuns
    /\ items = NoItems
    /\ trending = <<>>
    /\ tag_with_hash = Unbound
    /\ result = Unset
    /\ calls = 0
    /\ waited = 0
    /\ invoked = FALSE
    /\ exhausted = {}
    /\ fetched = NoRuns
    /\ tally0 = <<>>
    /\ nresults = 0
    /\ credit = <<>>

InitWith(inputs) ==
    /\ token \in BOOLEAN
    /\ hashtags \in inputs
    /\ pc = "start"
    /\ RunInit
    /\ PipelineInit
    /\ CacheIdle
    /\ PoolIdle
    /\ ToolsIdle
    /\ RecordIdle
    /\ RaceIdle

Init == InitWith(SeqsUpTo(Candidates, MaxItems))

\* ------------------------------------------------------------------------
\* Control flow helpers
\* ------------------------------------------------------------------------
\* entering the body of "for query_text in normalized" for the i-th query:
\* the run variables are cleared and the first retry loop starts
EnterQuery(i) ==
    /\ qi' = i
    /\ run' = NoRuns
    /\ exhausted' = {}
    /\ fetched' = NoRuns
    /\ tally0' = trending
    /\ prov' = Google
    /\ attempt' = 1
    /\ calls' = 0
    /\ waited' = 0
    /\ pc' = "call"

\* a loop that takes the same query again instead of the next one
NextQueryRepeats ==
    IF qi < Len(normalized)
    THEN EnterQuery(qi)
    ELSE /\ pc' = "finish"
         /\ UNCHANGED <<loopVars, queryVars>>

\* the next iteration of the query loop, or the statements after it
NextQuery ==
    IF qi < Len(normalized)
    THEN EnterQuery(qi + 1)
    ELSE /\ pc' = "finish"
         /\ UNCHANGED <<loopVars, queryVars>>

\* a retry loop is left: the next provider's loop starts, or the check of
\* the three runs follows
LeaveLoop ==
    /\ calls' = 0
    /\ waited' = 0
    /\ IF prov < Instagram
       THEN /\ prov' = prov + 1
            /\ attempt' = 1
            /\ pc' = "call"
       ELSE /\ pc' = "check"
            /\ UNCHANGED <<prov, attempt>>

\* run and run.get("defaultDatasetId")
HasDataset(r) == Truthy(r) /\ Truthy(Get(r, "defaultDatasetId", None))

\* the tokens the extraction profile of p finds in one provider result
TokensOf(p, item) ==
    LET st == Extract(p, [tr |-> <<>>, twh |-> Unbound, ex |-> ""], <<item>>)
    IN  [i \in 1..Len(st.tr) |-> st.tr[i][1]]

\* every token found in a result of its is credited the weight of p once
\* per result
Credit(cr, p, its) ==
    Fold(LAMBDA c, item :
            Fold(LAMBDA c2, tok : Bump(c2, tok, Weight(p)), c, TokensOf(p, item)),
         cr, its)

\* ------------------------------------------------------------------------
\* Actions
\* ------------------------------------------------------------------------
\* lines 122-154: the token check, normalisation and the empty short-cut
Start ==
    /\ pc = "start"
    /\ IF ~token
       THEN /\ pc' = "raised"
            /\ exc' = "ValueError"
            /\ UNCHANGED <<normalized, loopVars, queryVars, result>>
       ELSE /\ normalized' = Normalize(hashtags)
            /\ exc' = exc
            /\ IF Len(normalized') = 0
               THEN /\ result' = EmptyList
                    /\ pc' = "done"
                    /\ UNCHANGED <<loopVars, queryVars>>
               ELSE /\ result' = result
                    /\ EnterQuery(1)
    /\ UNCHANGED <<inputVars, items, tallyVars, invoked, nresults>>

\* client.actor(...).call(...) of the current retry loop returns h
CallReturns ==
    /\ pc = "call"
    /\ \E h \in Returns(qi, prov) : run' = [run EXCEPT ![prov] = h]
    /\ calls' = calls + 1
    /\ invoked' = TRUE
    /\ pc' = "returned"
    /\ UNCHANGED <<inputVars, exc, normalized, prov, attempt, waited, qi,
                   exhausted, fetched, tally0, items, tallyVars, result, nresults>>

\* client.actor(...).call(...) of the current retry loop raises
CallRaises ==
    /\ pc = "call"
    /\ calls' = calls + 1
    /\ invoked' = TRUE
    /\ pc' = "backoff"
    /\ UNCHANGED <<inputVars, exc, normalized, prov, attempt, waited, queryVars,
                   items, tallyVars, result, nresults>>

\* a retry loop without its break: a returned call is followed by the next
\* attempt
BreakForgotten ==
    /\ pc = "returned"
    /\ IF attempt < APIFY_CALL_RETRIES
       THEN /\ attempt' = attempt + 1
            /\ pc' = "call"
            /\ UNCHANGED <<prov, calls, waited>>
       ELSE LeaveLoop
    /\ UNCHANGED <<inputVars, exc, normalized, queryVars, items, tallyVars,
                   result, invoked, nresults>>

\* break
Break ==
    /\ pc = "returned"
    /\ LeaveLoop
    /\ UNCHANGED <<inputVars, exc, normalized, queryVars, items, tallyVars,
                   result, invoked, nresults>>

\* the except block: time.sleep(sleep_time)
Sleep ==
    /\ pc = "backoff"
    /\ waited' = waited + SleepTime(attempt)
    /\ pc' = "slept"
    /\ UNCHANGED <<inputVars, exc, normalized, prov, attempt, calls, queryVars,
                   items, tallyVars, result, invoked, nresults>>

\* the retry loop takes its next value of attempt, or ends without a run
NextAttempt ==
    /\ pc = "slept"
    /\ IF attempt < APIFY_CALL_RETRIES
       THEN /\ attempt' = attempt + 1
            /\ pc' = "call"
            /\ UNCHANGED <<prov, calls, waited, exhausted>>
       ELSE /\ LeaveLoop
            /\ exhausted' = exhausted \cup {prov}
    /\ UNCHANGED <<inputVars, exc, normalized, qi, run, fetched, tally0, items,
                   tallyVars, result, invoked, nresults>>

\* line 226: if not any([run_google, run_twitter, run_instagram]): continue
CheckRuns ==
    /\ pc = "check"
    /\ IF \A p \in Providers : ~Truthy(run[p])
       THEN NextQuery
       ELSE /\ pc' = "fetch"
            /\ prov' = Google
            /\ UNCHANGED <<attempt, calls, waited, queryVars>>
    /\ UNCHANGED <<inputVars, exc, normalized, items, tallyVars, result,
                   invoked, nresults>>

\* after the fetch of provider prov: the next fetch, or the extraction
AfterFetch ==
    IF prov < Instagram
    THEN prov' = prov + 1 /\ pc' = "fetch"
    ELSE prov' = Google /\ pc' = "extract"

\* the provider has no run with a dataset: its item list stays empty
FetchSkip ==
    /\ pc = "fetch"
    /\ ~HasDataset(run[prov])
    /\ items' = [items EXCEPT ![prov] = <<>>]
    /\ AfterFetch
    /\ UNCHANGED <<inputVars, exc, normalized, attempt, calls, waited, queryVars,
                   tallyVars, result, invoked, nresults>>

\* list(client.dataset(id).iterate_items()) delivers a result-set
FetchReturns ==
    /\ pc = "fetch"
    /\ HasDataset(run[prov])
    /\ \E its \in Datasets(prov) \cup {<<>>} :
          /\ its # <<>> => nresults < MaxResults
          /\ items' = [items EXCEPT ![prov] = its]
          /\ nresults' = IF its # <<>> THEN nresults + 1 ELSE nresults
    /\ fetched' = [fetched EXCEPT ![prov] = Get(run[prov], "defaultDatasetId", None)]
    /\ AfterFetch
    /\ UNCHANGED <<inputVars, exc, normalized, attempt, calls, waited, qi, run,
                   exhausted, tally0, tallyVars, result, invoked>>

\* the fetch raises: the except block of line 247 continues with the next
\* query
FetchRaises ==
    /\ pc = "fetch"
    /\ HasDataset(run[prov])
    /\ NextQuery
    /\ UNCHANGED <<inputVars, exc, normalized, items, tallyVars, result,
                   invoked, nresults>>

\* the extraction loop of provider p over its items
Process(p) ==
    /\ pc = "extract"
    /\ prov = p
    /\ LET st == Extract(p, [tr |-> trending, twh |-> tag_with_hash, ex |-> ""],
                         items[p])
       IN  /\ trending' = st.tr
           /\ tag_with_hash' = st.twh
           /\ exc' = st.ex
           /\ credit' = Credit(credit, p, items[p])
           /\ IF st.ex # ""
              THEN pc' = "raised" /\ prov' = prov
              ELSE IF p < Instagram
                   THEN pc' = "extract" /\ prov' = p + 1
                   ELSE pc' = "qend" /\ prov' = prov
    /\ UNCHANGED <<inputVars, normalized, attempt, calls, waited, queryVars,
                   items, result, invoked, nresults>>

\* lines 251-289
ProcessGoogle == Process(Google)
\* lines 291-304
ProcessTwitter == Process(Twitter)
\* lines 306-321
ProcessInstagram == Process(Instagram)

\* lines 323-324: the end of the loop body
EndQuery ==
    /\ pc = "qend"
    /\ NextQuery
    /\ UNCHANGED <<inputVars, exc, normalized, items, tallyVars, result,
                   invoked, nresults>>

\* lines 326-342: the ranking and the return
Finish ==
    /\ pc = "finish"
    /\ LET sorted_hashtags == SortedHashtags(trending)
       IN  result' = [shape |-> "tuple",
                      top_n |-> TopOf(sorted_hashtags),
                      sorted_hashtags |-> sorted_hashtags,
                      total_unique |-> Len(trending)]
    /\ pc' = "done"
    /\ UNCHANGED <<inputVars, exc, normalized, loopVars, queryVars, items,
                   tallyVars, invoked, nresults>>

Next ==
    \/ Start
    \/ CallReturns
    \/ CallRaises
    \/ Break
    \/ Sleep
    \/ NextAttempt
    \/ CheckRuns
    \/ FetchSkip
    \/ FetchReturns
    \/ FetchRaises
    \/ ProcessGoogle
    \/ ProcessTwitter
    \/ ProcessInstagram
    \/ EndQuery
    \/ Finish

Spec == Init /\ [][Next]_vars

\* the normaliser alone, on longer inputs of more kinds
InitNorm == InitWith(SeqsUpTo(NormCandidates, MaxNormItems))
NextNorm == Start
SpecNorm == InitNorm /\ [][NextNorm]_vars

\* ------------------------------------------------------------------------
\* The pipeline: main() and the /api/generate-hashtags handler
\* ------------------------------------------------------------------------
Callers == {"direct", "main", "api"}

\* combined = [q for q in keywords + hashtags_gemini if str and q.strip()],
\* then each is stripped and kept once
QueryListItem(acc, q) ==
    IF IsStr(q) /\ Strip(q.s) # <<>> /\ Str(Strip(q.s)) \notin {acc[i] : i \in 1..Len(acc)}
    THEN Append(acc, Str(Strip(q.s)))
    ELSE acc

QueryList(combined) == Fold(QueryListItem, <<>>, combined)

\* bool(trending_hashtags): a list is true when non-empty, the 5-tuple always
TruthyResult(r) == r.shape = "tuple" \/ (r.shape = "list" /\ r.xs # <<>>)

\* ', '.join(trending_hashtags) accepts str elements only; the elements of
\* the 5-tuple are two lists, an int and two floats
JoinRaises(r) == r.shape = "tuple"

\* what the model's answer, split at the commas, can give
LlmAnswers == {<<>>, <<h_a>>, <<h_b, h_a>>}

\* trending_hashtags[:20]
First20(xs) == SubSeq(xs, 1, IF Len(xs) < 20 THEN Len(xs) ELSE 20)

\* the exception leaves main() unhandled; the handler's outer except turns
\* it into the error response
PipelineRaises(e) ==
    /\ exc' = e
    /\ IF caller = "main"
       THEN pc' = "failed" /\ output' = output
       ELSE pc' = "ended" /\ output' = [kind |-> "error", status |-> 500]

runVars == <<normalized, loopVars, queryVars, items, tallyVars, result, invoked, nresults>>

\* a direct call of get_trending_hashtags_for_list
Call ==
    /\ pc = "entry"
    /\ caller = "direct"
    /\ \E hs \in SeqsUpTo(Candidates, 1) : hashtags' = hs
    /\ pc' = "start"
    /\ UNCHANGED <<token, pipelineVars, auxVars, exc, runVars>>

\* step 4 with a call that is not guarded by the key
Step4Unguarded ==
    /\ pc = "entry"
    /\ caller # "direct"
    /\ \E combined \in SeqsUpTo(Candidates, 1) : hashtags' = QueryList(combined)
    /\ pc' = "start"
    /\ UNCHANGED <<token, pipelineVars, auxVars, exc, runVars>>

\* step 4: with a key the query list is built and the aggregator called,
\* without one trending_hashtags stays []
Step4 ==
    /\ pc = "entry"
    /\ caller # "direct"
    /\ IF token
       THEN /\ \E combined \in SeqsUpTo(Candidates, 1) : hashtags' = QueryList(combined)
            /\ pc' = "start"
       ELSE /\ hashtags' = hashtags
            /\ pc' = "step5"
    /\ UNCHANGED <<token, pipelineVars, auxVars, exc, runVars>>

\* the aggregator returns to the pipeline: trending_hashtags = <the value>
AggregatorReturns ==
    /\ pc = "done"
    /\ caller # "direct"
    /\ trending_hashtags' = result
    /\ pc' = "step5"
    /\ UNCHANGED <<token, hashtags, caller, output, auxVars, exc, runVars>>

\* the aggregator raises into the pipeline
AggregatorRaises ==
    /\ pc = "raised"
    /\ caller # "direct"
    /\ PipelineRaises(exc)
    /\ UNCHANGED <<token, hashtags, caller, trending_hashtags, auxVars, runVars>>

\* step 5: if trending_hashtags: select_top_hashtags(...), whose prompt is
\* built outside its try; the answer of the model or, when that fails, the
\* first 20 of the list is kept
Step5 ==
    /\ pc = "step5"
    /\ IF ~TruthyResult(trending_hashtags)
       THEN /\ pc' = "step6"
            /\ UNCHANGED <<trending_hashtags, output, exc>>
       ELSE IF JoinRaises(trending_hashtags)
            THEN /\ PipelineRaises("TypeError")
                 /\ UNCHANGED trending_hashtags
            ELSE /\ \E xs \in LlmAnswers \cup {First20(trending_hashtags.xs)} :
                       trending_hashtags' = [shape |-> "list", xs |-> xs]
                 /\ pc' = "step6"
                 /\ UNCHANGED <<output, exc>>
    /\ UNCHANGED <<token, hashtags, caller, auxVars, runVars>>

\* steps 6 and 7: the result record is built and saved
Step6 ==
    /\ pc = "step6"
    /\ output' = [kind |-> "record", apify_trending_hashtags |-> trending_hashtags]
    /\ pc' = "ended"
    /\ UNCHANGED <<token, hashtags, caller, trending_hashtags, auxVars, exc, runVars>>

InitMain ==
    /\ token \in BOOLEAN
    /\ caller \in Callers
    /\ hashtags = <<>>
    /\ pc = "entry"
    /\ RunInit
    /\ trending_hashtags = EmptyList
    /\ output = NoOutput
    /\ CacheIdle
    /\ PoolIdle
    /\ ToolsIdle
    /\ RecordIdle
    /\ RaceIdle

NextMain ==
    \/ Call
    \/ Step4
    \/ AggregatorReturns
    \/ AggregatorRaises
    \/ Step5
    \/ Step6
    \/ Next

SpecMain == InitMain /\ [][NextMain]_vars

\* ------------------------------------------------------------------------
\* The cache layer: tools/cache.py, class FileCache
\* ------------------------------------------------------------------------
\* the clock is modelled up to MaxTime; keys are normalized queries and
\* values are parsed responses.  The file system does not fail: open, write
\* and replace succeed unless the process is interrupted.
MaxTime == 2
default_ttl == 2
q_ab == <<"a", "b">>
q_cd == <<"c", "d">>
CacheKeys == {q_ab, q_cd}
R1 == Dict(<< <<"id", PyInt(1)>> >>)
R2 == Dict(<< <<"id", PyInt(2)>> >>)
Responses == {R1, R2}
TtlArgs == {None, PyInt(0), PyInt(1)}

\* the record of an entry ('created_at' is written but never read)
Rec(value, expires_at) == [value |-> value, expires_at |-> expires_at]

Without(d, key) == [k \in DOMAIN d \ {key} |-> d[k]]
With(d, key, rec) == [k \in DOMAIN d \cup {key} |-> IF k = key THEN rec ELSE d[k]]

\* _load: no file or an unreadable one gives the empty store
Load(f) == IF f.kind = "store" THEN f.store ELSE EmptyStore

\* an expiry test with the comparison turned round
ExpiredReversed(rec, t) ==
    Truthy(rec.expires_at) /\ rec.expires_at.n > t

\* rec['expires_at'] and rec['expires_at'] < time.time()
Expired(rec, t) ==
    Truthy(rec.expires_at) /\ rec.expires_at.n < t

\* time.time() + int(ttl) if ttl > 0 else None, ttl defaulting to default_ttl
ExpiresAt(ttl, t) ==
    LET n == IF ttl = None THEN default_ttl ELSE ttl.n
    IN  IF n > 0 THEN PyInt(t + n) ELSE None

\* FileCache(path): __init__ and _load
Construct ==
    /\ data' = Load(file)
    /\ last' = Load(file)
    /\ cpc' = "idle"
    /\ cop' = NoCall
    /\ ret' = None
    /\ UNCHANGED <<file, tmpfile, now>>

\* get(key), up to its call of _save
get(key) ==
    /\ cop' = [op |-> "get", key |-> key]
    /\ IF key \notin DOMAIN data
       THEN /\ ret' = None
            /\ cpc' = "ret"
            /\ data' = data
       ELSE IF Expired(data[key], now)
            THEN /\ data' = Without(data, key)
                 /\ ret' = None
                 /\ cpc' = "open"
            ELSE /\ ret' = data[key].value
                 /\ cpc' = "ret"
                 /\ data' = data
    /\ UNCHANGED <<file, tmpfile, now, last>>

\* set(key, value, ttl), up to its call of _save
set(key, value, ttl) ==
    LET rec == Rec(value, ExpiresAt(ttl, now))
    IN  /\ cop' = [op |-> "set", key |-> key]
        /\ data' = With(data, key, rec)
        /\ last' = With(last, key, rec)
        /\ cpc' = "open"
        /\ UNCHANGED <<file, tmpfile, now, ret>>

\* delete(key), up to its call of _save
delete(key) ==
    /\ cop' = [op |-> "delete", key |-> key]
    /\ last' = Without(last, key)
    /\ IF key \in DOMAIN data
       THEN data' = Without(data, key) /\ cpc' = "open"
       ELSE data' = data /\ cpc' = "ret"
    /\ UNCHANGED <<file, tmpfile, now, ret>>

\* the aggregator and the pipeline
otherVars == <<token, hashtags, pipelineVars, pc, exc, runVars, recordVars, raceVars>>

outsideCache == <<otherVars, poolVars, toolVars>>

CacheGet ==
    /\ cpc = "idle"
    /\ \E key \in CacheKeys : get(key)
    /\ UNCHANGED outsideCache

CacheSet ==
    /\ cpc = "idle"
    /\ \E key \in CacheKeys, value \in Responses, ttl \in TtlArgs : set(key, value, ttl)
    /\ UNCHANGED outsideCache

CacheDelete ==
    /\ cpc = "idle"
    /\ \E key \in CacheKeys : delete(key)
    /\ UNCHANGED outsideCache

\* the method returns to its caller
CacheReturn ==
    /\ cpc = "ret"
    /\ cpc' = "idle"
    /\ UNCHANGED <<data, file, tmpfile, now, cop, ret, last, outsideCache>>

\* a save that opens the store file itself for writing
SaveOpenInPlace ==
    /\ cpc = "open"
    /\ file' = Partial
    /\ cpc' = "dump"
    /\ UNCHANGED <<data, tmpfile, now, cop, ret, last, outsideCache>>

\* _save: open(tmp, 'w') creates or truncates the temporary file
SaveOpen ==
    /\ cpc = "open"
    /\ tmpfile' = Partial
    /\ cpc' = "dump"
    /\ UNCHANGED <<data, file, now, cop, ret, last, outsideCache>>

\* _save: json.dump and the end of the with block: the temporary file holds
\* the whole store
SaveDump ==
    /\ cpc = "dump"
    /\ tmpfile' = StoreFile(data)
    /\ cpc' = "replace"
    /\ UNCHANGED <<data, file, now, cop, ret, last, outsideCache>>

\* _save: os.replace(tmp, self.path)
SaveReplace ==
    /\ cpc = "replace"
    /\ file' = tmpfile
    /\ tmpfile' = Absent
    /\ cpc' = "ret"
    /\ UNCHANGED <<data, now, cop, ret, last, outsideCache>>

\* time passes
Tick ==
    /\ now < MaxTime
    /\ now' = now + 1
    /\ UNCHANGED <<data, file, tmpfile, cpc, cop, ret, last, outsideCache>>

\* the process is interrupted, wherever it is, and a new one opens the cache
Interrupt ==
    /\ Construct
    /\ UNCHANGED outsideCache

\* a store file left by an earlier process
StoredBefore == [k \in {q_ab} |-> Rec(R1, PyInt(1))]

InitCache ==
    /\ token = TRUE
    /\ hashtags = <<>>
    /\ pc = "start"
    /\ RunInit
    /\ PipelineInit
    /\ file \in {Absent, StoreFile(StoredBefore)}
    /\ tmpfile = Absent
    /\ data = Load(file)
    /\ last = Load(file)
    /\ now = 0
    /\ cpc = "idle"
    /\ cop = NoCall
    /\ ret = None
    /\ PoolIdle
    /\ ToolsIdle
    /\ RecordIdle
    /\ RaceIdle

NextCache ==
    \/ CacheGet
    \/ CacheSet
    \/ CacheDelete
    \/ CacheReturn
    \/ SaveOpen
    \/ SaveDump
    \/ SaveReplace
    \/ Tick
    \/ Interrupt

SpecCache == InitCache /\ [][NextCache]_vars

\* ------------------------------------------------------------------------
\* The parallel dispatcher: tools/apify_parallel.py
\* ------------------------------------------------------------------------
MaxQueries == 3
max_workers == 2

Range(seq) == {seq[i] : i \in 1..Len(seq)}

outsidePool == <<otherVars, cacheVars, toolVars>>

\* fetch_all_parallel(qs), lines 54-57: the mapping is filled with None and
\* one worker is submitted per element of the list
fetch_all_parallel(qs) ==
    /\ queries' = qs
    /\ results' = [q \in Range(qs) |-> None]
    /\ futures' = [i \in 1..Len(qs) |-> "queued"]
    /\ outcome' = [i \in 1..Len(qs) |-> None]
    /\ ppc' = "collect"

PoolCall ==
    /\ ppc = "idle"
    /\ \E qs \in SeqsUpTo(CacheKeys, MaxQueries) : fetch_all_parallel(qs)
    /\ UNCHANGED outsidePool

\* a thread of the pool takes a submitted call, at most max_workers at a time
WorkerStarts ==
    /\ \E i \in 1..Len(futures) :
          /\ futures[i] = "queued"
          /\ Cardinality({j \in 1..Len(futures) : futures[j] = "running"}) < max_workers
          /\ futures' = [futures EXCEPT ![i] = "running"]
    /\ UNCHANGED <<queries, outcome, results, ppc, outsidePool>>

\* fetch_for_query returns resp.json()
WorkerSucceeds ==
    /\ \E i \in 1..Len(futures), r \in Responses :
          /\ futures[i] = "running"
          /\ futures' = [futures EXCEPT ![i] = "done"]
          /\ outcome' = [outcome EXCEPT ![i] = r]
    /\ UNCHANGED <<queries, results, ppc, outsidePool>>

\* the request raises (connection error, timeout, HTTP status, bad JSON):
\* fetch_for_query catches it and returns None
WorkerFails ==
    /\ \E i \in 1..Len(futures) :
          /\ futures[i] = "running"
          /\ futures' = [futures EXCEPT ![i] = "done"]
          /\ outcome' = [outcome EXCEPT ![i] = None]
    /\ UNCHANGED <<queries, results, ppc, outsidePool>>

\* for fut in as_completed(futures): results[q] = fut.result()
Collect ==
    /\ ppc = "collect"
    /\ \E i \in 1..Len(futures) :
          /\ futures[i] = "done"
          /\ futures' = [futures EXCEPT ![i] = "collected"]
          /\ results' = [results EXCEPT ![queries[i]] = outcome[i]]
    /\ UNCHANGED <<queries, outcome, ppc, outsidePool>>

\* every future was collected: the with block ends and results is returned
PoolReturn ==
    /\ ppc = "collect"
    /\ \A i \in 1..Len(futures) : futures[i] = "collected"
    /\ ppc' = "returned"
    /\ UNCHANGED <<queries, futures, outcome, results, outsidePool>>

InitPool ==
    /\ token = TRUE
    /\ hashtags = <<>>
    /\ pc = "start"
    /\ RunInit
    /\ PipelineInit
    /\ CacheIdle
    /\ PoolIdle
    /\ ToolsIdle
    /\ RecordIdle
    /\ RaceIdle

NextPool ==
    \/ PoolCall
    \/ WorkerStarts
    \/ WorkerSucceeds
    \/ WorkerFails
    \/ Collect
    \/ PoolReturn

SpecPool == InitPool /\ [][NextPool]_vars

\* ------------------------------------------------------------------------
\* The integration: tools/dedupe_filter.py and tools/integration_example.py
\* ------------------------------------------------------------------------
RECURSIVE CollapseSpaces(_)
\* re.sub(r"\s+", " ", s)
CollapseSpaces(s) ==
    IF Len(s) < 2 THEN s
    ELSE IF IsSpace(s[1]) /\ IsSpace(s[2])
         THEN CollapseSpaces(Tail(s))
         ELSE <<s[1]>> \o CollapseSpaces(Tail(s))

\* normalize_text(s)
normalize_text(s) == CollapseSpaces(Strip(s))

CommonFields == <<"title", "text", "query", "q", "searchQuery", "name">>

\* the fields of CommonFields that dict it holds as a non-blank str
UsableFields(it) ==
    SelectSeq(CommonFields,
              LAMBDA key : HasKey(it, key) /\ IsStr(Get(it, key, None))
                              /\ Strip(Get(it, key, None).s) # <<>>)

\* the text normalize_items makes of one item that is not None
ItemText(it) ==
    IF IsStr(it) THEN normalize_text(it.s)
    ELSE IF IsDict(it) /\ UsableFields(it) # <<>>
         THEN normalize_text(Get(it, Head(UsableFields(it)), None).s)
         ELSE normalize_text(PyStr(it))

\* one pass of the loop of normalize_items
NormalizeItemsStep(out, it) ==
    IF it = None THEN out
    ELSE IF IsStr(it) /\ ItemText(it) = <<>> THEN out
         ELSE Append(out, ItemText(it))

normalize_items(its) == Fold(NormalizeItemsStep, <<>>, its)

LowerChar(c) ==
    CASE c = "A" -> "a"
      [] c = "B" -> "b"
      [] c = "C" -> "c"
      [] c = "D" -> "d"
      [] c = "N" -> "n"
      [] OTHER -> c

\* str.lower()
Lower(s) == [i \in 1..Len(s) |-> LowerChar(s[i])]

GENERIC_STOP_WORDS ==
    {<<"t", "h", "e">>, <<"a">>, <<"a", "n">>, <<"a", "n", "d">>, <<"o", "r">>,
     <<"t", "o">>, <<"i", "n">>, <<"o", "n">>, <<"f", "o", "r">>,
     <<"w", "i", "t", "h">>, <<"o", "f">>}

min_len == 2

\* one pass of the loop of filter_generic
FilterGenericStep(out, it) ==
    LET t == Strip(it)
    IN  IF Len(t) < min_len \/ Lower(t) \in GENERIC_STOP_WORDS THEN out
        ELSE Append(out, t)

filter_generic(its) == Fold(FilterGenericStep, <<>>, its)

\* one pass of the loop of dedupe_preserve_order
DedupeStep(out, it) == IF it \in Range(out) THEN out ELSE Append(out, it)

dedupe_preserve_order(its) == Fold(DedupeStep, <<>>, its)

\* lines 37-42
ToProcess(raw) ==
    dedupe_preserve_order(
        filter_generic(SelectSeq(normalize_items(raw), LAMBDA q : q # <<>>)))

\* raw items given to the integration
MaxRaw == 2
ToolCandidates ==
    {Str(<<" ", "a", "b", " ">>), Str(<<"A", "B">>), Str(<<"A", "n">>), None,
     Dict(<< <<"title", Str(q_ab)>> >>)}

\* {**cached_results, **fresh_results}
MergeDicts(a, b) ==
    [k \in DOMAIN a \cup DOMAIN b |-> IF k \in DOMAIN b THEN b[k] ELSE a[k]]

\* lines 33-45: the empty short-cut, or the queries to process are computed
\* and the cache is constructed
ToolsCall ==
    /\ tpc \in {"idle", "returned"}
    /\ \E raw \in SeqsUpTo(ToolCandidates, MaxRaw) :
          /\ tpc = "returned" => raw = raw_queries
          /\ raw_queries' = raw
          /\ IF raw = <<>>
             THEN /\ merged' = EmptyStore
                  /\ tpc' = "returned"
                  /\ opened' = FALSE
                  /\ to_process' = <<>>
                  /\ UNCHANGED cacheVars
             ELSE /\ to_process' = ToProcess(raw)
                  /\ Construct
                  /\ opened' = TRUE
                  /\ tpc' = "lookup"
                  /\ merged' = merged
    /\ cached_results' = EmptyStore
    /\ need_query' = <<>>
    /\ fresh_results' = EmptyStore
    /\ ti' = 1
    /\ sent' = {}
    /\ hits' = EmptyStore
    /\ UNCHANGED <<wrote, poolVars, otherVars>>

\* line 51: v = cache.get(q)
ToolsLookup ==
    /\ tpc = "lookup"
    /\ cpc = "idle"
    /\ ti <= Len(to_process)
    /\ LET q == to_process[ti]
       IN  /\ get(q)
           /\ hits' = IF q \in DOMAIN last /\ (last[q].expires_at = None
                                                \/ last[q].expires_at.n >= now)
                      THEN With(hits, q, last[q].value)
                      ELSE hits
    /\ tpc' = "looked"
    /\ UNCHANGED <<raw_queries, to_process, cached_results, need_query,
                   fresh_results, merged, ti, opened, sent, wrote, poolVars,
                   otherVars>>

\* lines 52-55: get has returned
ToolsLooked ==
    /\ tpc = "looked"
    /\ cpc = "ret"
    /\ IF ret # None
       THEN /\ cached_results' = With(cached_results, to_process[ti], ret)
            /\ need_query' = need_query
       ELSE /\ need_query' = Append(need_query, to_process[ti])
            /\ cached_results' = cached_results
    /\ ti' = ti + 1
    /\ cpc' = "idle"
    /\ tpc' = "lookup"
    /\ UNCHANGED <<data, file, tmpfile, now, cop, ret, last, raw_queries,
                   to_process, fresh_results, merged, opened, sent, hits, wrote,
                   poolVars, otherVars>>

\* lines 60-62: the queries that missed are handed to fetch_all_parallel
ToolsDispatch ==
    /\ tpc = "lookup"
    /\ cpc = "idle"
    /\ ti > Len(to_process)
    /\ IF need_query # <<>>
       THEN /\ fetch_all_parallel(need_query)
            /\ sent' = Range(need_query)
            /\ tpc' = "fetching"
       ELSE /\ tpc' = "store"
            /\ UNCHANGED <<poolVars, sent>>
    /\ ti' = 1
    /\ UNCHANGED <<raw_queries, to_process, cached_results, need_query,
                   fresh_results, merged, opened, hits, wrote, cacheVars,
                   otherVars>>

\* line 62: fetch_all_parallel has returned its mapping, and its executor and
\* its locals are gone
ToolsFetched ==
    /\ tpc = "fetching"
    /\ ppc = "returned"
    /\ fresh_results' = results
    /\ queries' = <<>>
    /\ futures' = <<>>
    /\ outcome' = <<>>
    /\ results' = EmptyStore
    /\ ppc' = "idle"
    /\ tpc' = "store"
    /\ UNCHANGED <<raw_queries, to_process, cached_results, need_query, merged,
                   ti, opened, sent, hits, wrote, cacheVars, otherVars>>

\* a store loop that caches failed responses as well
ToolsStoreAll ==
    /\ tpc = "store"
    /\ cpc = "idle"
    /\ ti <= Len(need_query)
    /\ fresh_results # EmptyStore
    /\ LET q == need_query[ti]
       IN  /\ set(q, fresh_results[q], None)
           /\ wrote' = With(wrote, q, now)
           /\ tpc' = "stored"
           /\ ti' = ti
    /\ UNCHANGED <<raw_queries, to_process, cached_results, need_query,
                   fresh_results, merged, opened, sent, hits, poolVars, otherVars>>

\* lines 64-69: for q, res in fresh_results.items(): a response that is not
\* None is written to the cache
ToolsStore ==
    /\ tpc = "store"
    /\ cpc = "idle"
    /\ ti <= Len(need_query)
    /\ fresh_results # EmptyStore
    /\ LET q == need_query[ti]
       IN  IF fresh_results[q] # None
           THEN /\ set(q, fresh_results[q], None)
                /\ wrote' = With(wrote, q, now)
                /\ tpc' = "stored"
                /\ ti' = ti
           ELSE /\ ti' = ti + 1
                /\ UNCHANGED <<cacheVars, wrote, tpc>>
    /\ UNCHANGED <<raw_queries, to_process, cached_results, need_query,
                   fresh_results, merged, opened, sent, hits, poolVars, otherVars>>

\* cache.set has returned
ToolsStored ==
    /\ tpc = "stored"
    /\ cpc = "ret"
    /\ cpc' = "idle"
    /\ ti' = ti + 1
    /\ tpc' = "store"
    /\ UNCHANGED <<data, file, tmpfile, now, cop, ret, last, raw_queries,
                   to_process, cached_results, need_query, fresh_results, merged,
                   opened, sent, hits, wrote, poolVars, otherVars>>

\* a merge that returns the fresh responses only
ToolsMergeFresh ==
    /\ tpc = "store"
    /\ cpc = "idle"
    /\ ti > Len(need_query) \/ fresh_results = EmptyStore
    /\ merged' = fresh_results
    /\ tpc' = "returned"
    /\ UNCHANGED <<raw_queries, to_process, cached_results, need_query,
                   fresh_results, ti, opened, sent, hits, wrote, cacheVars,
                   poolVars, otherVars>>

\* lines 72-77: the two mappings are merged, every query to process gets a
\* key, and the mapping is returned
ToolsMerge ==
    /\ tpc = "store"
    /\ cpc = "idle"
    /\ ti > Len(need_query) \/ fresh_results = EmptyStore
    /\ LET m == MergeDicts(cached_results, fresh_results)
       IN  merged' = [q \in DOMAIN m \cup Range(to_process) |->
                         IF q \in DOMAIN m THEN m[q] ELSE None]
    /\ tpc' = "returned"
    /\ UNCHANGED <<raw_queries, to_process, cached_results, need_query,
                   fresh_results, ti, opened, sent, hits, wrote, cacheVars,
                   poolVars, otherVars>>

InitTools ==
    /\ token = TRUE
    /\ hashtags = <<>>
    /\ pc = "start"
    /\ RunInit
    /\ PipelineInit
    /\ file \in {Absent, StoreFile(StoredBefore)}
    /\ tmpfile = Absent
    /\ data = EmptyStore
    /\ last = EmptyStore
    /\ now = 0
    /\ cpc = "idle"
    /\ cop = NoCall
    /\ ret = None
    /\ PoolIdle
    /\ ToolsIdle
    /\ RecordIdle
    /\ RaceIdle

NextTools ==
    \/ ToolsCall
    \/ ToolsLookup
    \/ ToolsLooked
    \/ ToolsDispatch
    \/ ToolsFetched
    \/ ToolsStore
    \/ ToolsStored
    \/ ToolsMerge
    \/ SaveOpen
    \/ SaveDump
    \/ SaveReplace
    \/ WorkerStarts
    \/ WorkerSucceeds
    \/ WorkerFails
    \/ Collect
    \/ PoolReturn
    \/ Tick

SpecTools == InitTools /\ [][NextTools]_vars

\* ------------------------------------------------------------------------
\* normalize_query_item on records
\* ------------------------------------------------------------------------
\* records given to normalize_query_item on its own
MaxFields == 2
FieldCandidates ==
    { <<"title", Str(<<" ", "t", " ">>)>>, <<"title", Str(<<" ">>)>>,
      <<"text", PyInt(5)>>, <<"q", Str(<<"k">>)>>, <<"snippet", Str(<<"s">>)>>,
      <<"name", Str(<<"n">>)>>, <<"url", Str(<<"/", "a", "-", "b", "_", "c", "/">>)>>,
      <<"url", Str(<<"?", "z", "=", "1", "&", "q", "=", "c", "+", "d">>)>>,
      <<"url", Str(<<"/">>)>> }
RecordCandidates ==
    {Dict(kv) : kv \in {r \in SeqsUpTo(FieldCandidates, MaxFields) :
                            \A i, j \in 1..Len(r) : i # j => r[i][1] # r[j][1]}}

\* normalize_query_item(tag) is called and returns
NormalizeRecord ==
    /\ query = Unset
    /\ IsDict(tag)
    /\ query' = Str(normalize_query_item(tag))
    /\ UNCHANGED <<token, hashtags, pipelineVars, pc, exc, runVars, tag, raceVars,
                   cacheVars, poolVars, toolVars>>

InitRecord ==
    /\ token = TRUE
    /\ hashtags = <<>>
    /\ pc = "start"
    /\ RunInit
    /\ PipelineInit
    /\ CacheIdle
    /\ PoolIdle
    /\ ToolsIdle
    /\ tag \in RecordCandidates
    /\ query = Unset
    /\ RaceIdle

NextRecord == NormalizeRecord
SpecRecord == InitRecord /\ [][NextRecord]_vars

TypeOK ==
    /\ pc \in {"start", "call", "returned", "backoff", "slept", "check", "fetch",
               "extract", "qend", "finish", "done", "raised",
               "entry", "step5", "step6", "ended", "failed"}
    /\ qi \in 0..Len(normalized)
    /\ prov \in Providers
    /\ attempt \in 1..APIFY_CALL_RETRIES
    /\ calls \in 0..APIFY_CALL_RETRIES
    /\ exhausted \subseteq Providers
    /\ nresults \in 0..MaxResults

\* ------------------------------------------------------------------------
\* Properties of the retry loops
\* ------------------------------------------------------------------------
InRetryLoop == pc \in {"call", "returned", "backoff", "slept"}

\* C1: for every (query, provider) pair the provider is invoked at least
\* once and at most 3 times; a returned invocation is followed by no further
\* invocation for the pair (the loop is left and no pair is entered twice);
\* the run kept for the pair is the one that invocation returned, and it is
\* the one whose dataset is fetched afterwards.
C1_RetryLoop ==
    [][/\ calls' <= 3
       /\ calls' = calls + 1 => pc = "call" /\ pc' \in {"returned", "backoff"}
       /\ (pc \in {"returned", "slept"} /\ (pc' = "check" \/ prov' # prov))
             => calls >= 1
       /\ pc = "returned"
             => /\ pc' = "check" \/ (pc' = "call" /\ prov' = prov + 1)
                /\ qi' = qi
                /\ run' = run
       /\ pc' = "call"
             => IF InRetryLoop
                THEN qi' = qi /\ prov' >= prov
                ELSE qi' = qi + 1 /\ prov' = Google
       /\ pc' = "returned" => run'[prov'] \in Returns(qi', prov')
       /\ (pc \in {"check", "fetch", "extract", "qend"} /\ qi' = qi) => run' = run
       /\ \A p \in Providers :
             fetched'[p] # None
                => run'[p] = RunHandle(qi', p) /\ fetched'[p] = DatasetId(qi', p)
      ]_vars

\* C1 witness: in the second query the web-search provider has no run and
\* the dataset of the run the microblog provider returned has been fetched
C1_Witness ==
    /\ qi = 2
    /\ pc = "fetch"
    /\ prov = Instagram
    /\ Google \in exhausted
    /\ fetched[Twitter] = DatasetId(2, Twitter)

\* C2: the wait after failed attempt k is exactly
\* APIFY_CALL_BACKOFF_SECONDS * 2^(k-1) seconds, nothing else waits, and a
\* pair whose third call returns has waited at least base*1 + base*2 seconds
\* and keeps what the third call returned.
C2_Backoff ==
    [][/\ pc = "backoff"
             => /\ pc' = "slept"
                /\ waited' = waited + APIFY_CALL_BACKOFF_SECONDS * Pow2(calls - 1)
       /\ waited' # waited => pc = "backoff" \/ waited' = 0
       /\ (pc' = "returned" /\ calls' = 3)
             => /\ waited' >= APIFY_CALL_BACKOFF_SECONDS * 1
                               + APIFY_CALL_BACKOFF_SECONDS * 2
                /\ run'[prov'] \in Returns(qi', prov')
      ]_vars

\* C2 witness: the third call of a pair has returned a run after two waits
\* of 2 and 4 seconds
C2_Witness ==
    /\ pc = "returned"
    /\ calls = 3
    /\ waited = 6
    /\ HasDataset(run[prov])

\* C19: a backoff wait occurs only between attempts: every wait is followed
\* by a further attempt of the same (query, provider) pair, and a pair whose
\* three attempts all failed has waited exactly 2 + 4 seconds.
C19_WaitBetweenAttempts ==
    [][/\ pc = "slept"
             => /\ pc' = "call"
                /\ attempt' = attempt + 1
                /\ prov' = prov
                /\ qi' = qi
       /\ exhausted' \notin {exhausted, {}}
             => waited = APIFY_CALL_BACKOFF_SECONDS * 1 + APIFY_CALL_BACKOFF_SECONDS * 2
      ]_vars

\* C20: events are totally ordered.  Queries are taken in the order of the
\* normalized sequence, each once; a provider is invoked only in its retry
\* loop, the loops of a query run in the order web search, microblog, photo
\* network; result-sets are fetched and the tally is updated only after the
\* last retry loop of the query, and the next invocation after that belongs
\* to the next query.
C20_TotalOrder ==
    [][/\ qi' \in {qi, qi + 1}
       /\ qi' = qi + 1 => pc' = "call" /\ prov' = Google /\ calls' = 0
       /\ calls' = calls + 1 => InRetryLoop /\ prov' = prov /\ qi' = qi
       /\ (InRetryLoop /\ qi' = qi)
             => /\ prov' \in {prov, prov + 1}
                /\ pc' \in {"call", "returned", "backoff", "slept", "check"}
                /\ pc' = "check" => prov = Instagram
       /\ items' # items => pc = "fetch" /\ qi' = qi
       /\ trending' # trending => pc = "extract" /\ qi' = qi
       /\ (pc \in {"check", "fetch", "extract", "qend"} /\ pc' = "call")
             => qi' = qi + 1
       /\ pc' = "finish" => qi' = Len(normalized')
      ]_vars

\* C20 witness: the tally holds tokens of the first query while results of
\* the second query, invoked after them, are extracted
C20_Witness ==
    /\ qi = 2
    /\ pc = "extract"
    /\ tally0 # <<>>
    /\ \E p \in Providers : items[p] # <<>>

\* ------------------------------------------------------------------------
\* Properties of failure handling
\* ------------------------------------------------------------------------
\* C3: when a provider fails on every attempt for a query the run does not
\* raise; the pair adds nothing to the tally; the remaining providers are
\* still invoked and their results still counted (the query is not left
\* while a provider other than the one being fetched has a result-set); when
\* all three fail the tally is unchanged by the query and the next query
\* follows; the query loop ends only after the last query.
C3_ExhaustedProvider ==
    [][/\ exhausted' # {} => pc' # "raised"
       /\ (pc = "slept" /\ attempt = APIFY_CALL_RETRIES)
             => /\ trending' = trending
                /\ IF prov < Instagram
                   THEN pc' = "call" /\ prov' = prov + 1 /\ qi' = qi
                   ELSE pc' = "check"
       /\ pc' = "extract" => \A p \in exhausted' : items'[p] = <<>>
       /\ (exhausted # {} /\ pc = "check" /\ pc' \in {"call", "finish"})
             => \A p \in Providers : ~HasDataset(run[p])
       /\ (exhausted # {} /\ pc = "fetch" /\ pc' \in {"call", "finish"})
             => \A p \in Providers :
                   /\ p < prov => items[p] = <<>>
                   /\ p > prov => ~HasDataset(run[p])
       /\ (pc = "check" /\ exhausted = Providers)
             => /\ trending' = tally0
                /\ IF qi < Len(normalized)
                   THEN pc' = "call" /\ qi' = qi + 1
                   ELSE pc' = "finish"
       /\ pc' = "finish" => qi' = Len(normalized')
      ]_vars

\* C4: when the fetch of one provider's result-set fails the run does not
\* raise and only that provider supplies no data: the query is not abandoned
\* while another provider of the query has a result-set, fetched already or
\* still to be fetched.
C4_FetchFailure ==
    [][(pc = "fetch" /\ pc' \notin {"fetch", "extract"})
          => /\ pc' # "raised"
             /\ \A p \in Providers :
                   /\ p < prov => items[p] = <<>>
                   /\ p > prov => ~HasDataset(run[p])
      ]_vars

\* ------------------------------------------------------------------------
\* Properties of the tally and the ranking
\* ------------------------------------------------------------------------
TallyTokens(tr) == {tr[i][1] : i \in 1..Len(tr)}

\* C5: at the end of a run the weight of every token equals the sum, over
\* the provider results in which it was extracted, of the weight of the
\* provider.
C5_Weights ==
    (pc = "done" /\ result.shape = "tuple")
       => /\ TallyTokens(trending) = TallyTokens(credit)
          /\ \A tok \in TallyTokens(trending) :
                WeightOf(trending, tok) = WeightOf(credit, tok)

\* position of token tok in the tally tr
PosIn(tr, tok) == CHOOSE i \in 1..Len(tr) : tr[i][1] = tok

C7_EmptyResult ==
    (pc = "done" /\ Len(normalized) = 0)
       => /\ ~invoked
          /\ result.shape = "tuple"
          /\ result.top_n = <<>>
          /\ result.sorted_hashtags = <<>>
          /\ result.total_unique = 0

\* ------------------------------------------------------------------------
\* Properties of the normalized query sequence
\* ------------------------------------------------------------------------
\* the input positions whose item is normalized to q
Occurrences(q) ==
    {k \in 1..Len(hashtags) :
        /\ IsStr(hashtags[k])
        /\ StartsWith(hashtags[k].s, "#")
        /\ Strip(hashtags[k].s) = q}

FirstOccurrence(q) == CHOOSE k \in Occurrences(q) : \A m \in Occurrences(q) : k <= m

Example8 == <<Str(<<"#", "A">>), Str(h_a), Str(<<"#", "A">>), Str(h_b)>>

\* C8: the normalized query sequence holds no string twice, only trimmed
\* non-empty strings, each taken from the input, in the order of their first
\* occurrence in the input; the comparison is exact and case-sensitive
\* (#A, #a, #A, #b gives #A, #a, #b).
C8_Normalized ==
    pc \notin {"start", "raised"}
       => /\ \A i, j \in 1..Len(normalized) : i # j => normalized[i] # normalized[j]
          /\ \A i \in 1..Len(normalized) :
                /\ normalized[i] # <<>>
                /\ normalized[i][1] # " "
                /\ normalized[i][Len(normalized[i])] # " "
                /\ Occurrences(normalized[i]) # {}
          /\ \A i, j \in 1..Len(normalized) :
                i < j => FirstOccurrence(normalized[i]) < FirstOccurrence(normalized[j])
          /\ hashtags = Example8
                => normalized = <<<<"#", "A">>, h_a, h_b>>

\* C8 witness: the example input, which repeats #A and holds #a beside it,
\* has been normalized to three queries
C8_Witness ==
    /\ pc = "call"
    /\ hashtags = Example8
    /\ Len(normalized) = 3

\* the search phrases of the queries a run dispatches
SearchPhrases == [i \in 1..Len(normalized) |-> SearchPhrase(normalized[i])]

Example11 == <<Str(h_a), Str(h_a), Str(<<" ">> \o h_b \o <<" ">>)>>

\* C11: for the candidates #a, #a and a whitespace-padded #b the run
\* dispatches exactly two queries, one for "a" and one for "b": the padded
\* candidate is trimmed and kept, the duplicate is dropped.
C11_Scenario ==
    (pc \notin {"start", "raised"} /\ hashtags = Example11)
       => SearchPhrases = << <<"a">>, <<"b">> >>

\* ------------------------------------------------------------------------
\* Properties of the pipeline
\* ------------------------------------------------------------------------
\* C12: with the access token configured a run of main() does not end in an
\* unhandled failure, whatever the providers do: the value the aggregator
\* hands to the pipeline is a list of hashtag strings, the selection step
\* accepts it, and the run ends with the result record and its list.
C12_PipelineCompletes ==
    (caller = "main" /\ token)
       => /\ pc # "failed"
          /\ pc = "step5" => trending_hashtags.shape = "list"
          /\ pc = "ended" => /\ output.kind = "record"
                             /\ output.apify_trending_hashtags.shape = "list"

\* C13: without the access token no provider is ever invoked: a direct call
\* raises the configuration error before it normalizes anything, while
\* main() and the handler skip the trending step without calling the
\* aggregator and end with an empty trending list in their result.
C13_NoToken ==
    ~token
       => /\ ~invoked
          /\ normalized = <<>>
          /\ pc \in {"entry", "start", "raised", "step5", "step6", "ended"}
          /\ pc \in {"start", "raised"} => caller = "direct"
          /\ pc = "raised" => exc = "ValueError"
          /\ pc \in {"step5", "step6", "ended"}
                => /\ caller # "direct"
                   /\ exc = ""
                   /\ trending_hashtags = EmptyList
          /\ pc = "ended"
                => output = [kind |-> "record", apify_trending_hashtags |-> EmptyList]

\* C13 witness: the handler has ended a run without the token
C13_Witness ==
    /\ ~token
    /\ caller = "api"
    /\ pc = "ended"
    /\ output.kind = "record"

\* ------------------------------------------------------------------------
\* Properties of the cache layer
\* ------------------------------------------------------------------------
\* the entry is in force at time t: no expiry, or one that has not passed
InForce(rec, t) == rec.expires_at = None \/ rec.expires_at.n >= t

\* C14: get(k) returns the value of the most recent set(k, v, ttl) if k has
\* not been deleted since and its expiry is null or has not passed, and
\* absent otherwise; get removes an entry only when its expiry has passed at
\* the time of the read, and then the entry leaves the in-memory store and
\* the persisted store is rewritten without it.
C14_CacheGet ==
    [][/\ \A k \in CacheKeys :
             (cpc = "idle" /\ cpc' # "idle" /\ cop' = [op |-> "get", key |-> k])
                => /\ ret' = IF k \in DOMAIN last /\ InForce(last[k], now)
                             THEN last[k].value
                             ELSE None
                   /\ data' # data
                         => /\ k \in DOMAIN data
                            /\ ~InForce(data[k], now)
                            /\ data' = Without(data, k)
                            /\ cpc' = "open"
                   /\ (k \in DOMAIN data /\ ~InForce(data[k], now))
                         => k \notin DOMAIN data'
       /\ (cpc = "replace" /\ cpc' = "ret" /\ cop.op = "get")
             => /\ file' = StoreFile(data)
                /\ cop.key \notin DOMAIN file'.store
      ]_vars

\* C14 witness: a get has found its entry expired, has removed it and the
\* store file has been rewritten without it
C14_Witness ==
    /\ cpc = "ret"
    /\ cop.op = "get"
    /\ cop.key \in DOMAIN last
    /\ cop.key \notin DOMAIN data
    /\ file = StoreFile(data)
    /\ \E k \in DOMAIN data : InForce(data[k], now) /\ data[k].expires_at # None

\* C15: at every moment, also when the process is interrupted between two
\* steps of a write, the file at the store path holds a complete store: what
\* it held before the operation or the full store after it.
C15_AtomicSave ==
    [][/\ file'.kind # "partial"
       /\ file' # file => file' = StoreFile(data')
      ]_vars

\* C15 witness: an interrupted write has left a partial temporary file
\* while the store file holds a complete store
C15_Witness ==
    /\ cpc = "idle"
    /\ cop = NoCall
    /\ tmpfile = Partial
    /\ file.kind = "store"
    /\ file.store # StoredBefore

\* ------------------------------------------------------------------------
\* Properties of the parallel dispatcher
\* ------------------------------------------------------------------------
\* C16: for any query list fetch_all_parallel returns, after every worker
\* has finished, a mapping with an entry for every input query: the worker's
\* response where the worker succeeded, None where it failed; the failure of
\* one worker neither cancels a sibling nor changes the outcome recorded for
\* it.
C16_EveryOutcomeRecorded ==
    ppc = "returned"
       => /\ DOMAIN results = Range(queries)
          /\ \A i \in 1..Len(queries) :
                /\ futures[i] = "collected"
                /\ results[queries[i]] = outcome[i]

\* ------------------------------------------------------------------------
\* Properties of the extraction
\* ------------------------------------------------------------------------
\* C9: hashtag extraction never raises, whatever the shape of a fetched
\* result: the only exception that ends a run is the configuration error.
C9_ExtractionNeverRaises ==
    pc = "raised" => exc = "ValueError"

\* C10: in every reachable state every key of the tally is a HashtagToken:
\* one '#' followed by one or more word characters.
C10_TallyKeys ==
    \A i \in 1..Len(trending) : IsHashtagToken(trending[i][1])

\* the queries of raw that remain: the text of every item that is not None,
\* if it has at least min_len characters and is no stop word
Remaining(raw) ==
    {ItemText(raw[i]) :
        i \in {j \in 1..Len(raw) :
                  /\ raw[j] # None
                  /\ Len(ItemText(raw[j])) >= min_len
                  /\ Lower(ItemText(raw[j])) \notin GENERIC_STOP_WORDS}}

\* C17: get_trending_hashtags_with_tools returns a mapping whose keys are
\* exactly the queries that remain of the raw input after normalizing,
\* filtering and de-duplicating; a key that was found in the cache maps to
\* its cached response, any other key to what its fetch gave, a response or
\* None for a failure; an empty raw list gives the empty mapping, and the
\* cache is not opened and nothing is dispatched.
C17_ReturnedMapping ==
    /\ tpc = "fetching" /\ ppc = "returned" =>
          \A i \in 1..Len(queries) : results[queries[i]] = outcome[i]
    /\ tpc = "returned" =>
          /\ DOMAIN merged = Remaining(raw_queries)
          /\ \A q \in DOMAIN merged :
                IF q \in DOMAIN hits
                THEN merged[q] = hits[q] /\ q \notin sent
                ELSE /\ q \in sent
                     /\ merged[q] = fresh_results[q]
                     /\ merged[q] \in Responses \cup {None}
          /\ raw_queries = <<>> => merged = EmptyStore /\ ~opened /\ sent = {}

\* a call has returned one cached response and None for a fetch that failed
C17_Witness ==
    /\ tpc = "returned"
    /\ \E q \in DOMAIN merged : q \in DOMAIN hits /\ merged[q] = hits[q]
    /\ \E q \in DOMAIN merged : q \in sent /\ merged[q] = None

\* C18: the queries handed to the dispatcher are exactly those without an
\* entry in force in the cache, and a query found in the cache is returned
\* with its cached value; the cache is written only with a fresh response
\* that is not None, and every such response is in the cache when the call
\* returns; hence a query whose response was written is not dispatched again
\* before default_ttl has passed.
C18_OnlyMissesDispatched ==
    [][/\ ppc = "idle" /\ ppc' # "idle" =>
             /\ queries' = need_query
             /\ Range(need_query) = Range(to_process) \ DOMAIN hits
             /\ \A q \in Range(need_query) :
                   q \in DOMAIN wrote => now > wrote[q] + default_ttl
       /\ tpc = "lookup" /\ tpc' = "store" =>
             Range(to_process) \subseteq DOMAIN hits /\ ppc' = "idle"
       /\ cop' # cop /\ cop'.op = "set" =>
             /\ cop'.key \in sent
             /\ fresh_results[cop'.key] # None
             /\ last' = With(last, cop'.key,
                             Rec(fresh_results[cop'.key],
                                 PyInt(now + default_ttl)))
       /\ tpc' = "returned" /\ tpc # "returned" =>
             /\ \A q \in DOMAIN hits : merged'[q] = hits[q] /\ q \notin sent
             /\ \A q \in sent :
                   fresh_results[q] # None =>
                      /\ q \in DOMAIN file.store
                      /\ file.store[q].value = fresh_results[q]
                      /\ file.store[q].expires_at = PyInt(wrote[q] + default_ttl)]_vars

\* a second call has found the response the first call wrote, and has
\* dispatched only the query that failed in the first call
C18_Witness ==
    /\ tpc = "returned"
    /\ \E q \in DOMAIN hits : q \in DOMAIN wrote /\ merged[q] = hits[q]
    /\ \E q \in sent : q \notin DOMAIN hits

\* ------------------------------------------------------------------------
\* Properties of the extraction
\* ------------------------------------------------------------------------
\* C21: the extractor yields a set per provider result: processing the
\* results of the web-search provider raises the weight of every token by
\* the provider's weight once for each result in which the token was found,
\* however often the token occurs within that result.
C21_OncePerResult ==
    [][(pc = "extract" /\ prov = Google /\ pc' # "raised")
          => \A tok \in TallyTokens(trending') :
                WeightOf(trending', tok) - WeightOf(trending, tok)
                   = WeightOf(credit', tok) - WeightOf(credit, tok)
      ]_vars

\* C23: during a run the tally only grows.  It is empty when the run starts;
\* no step removes a token, reorders the tokens or lowers a weight; every
\* stored weight is a positive integer; the tally changes only while a
\* provider's results are processed, and then every weight rises by a
\* number of single updates of that provider's weight, 1 or 2.
C23_TallyGrows ==
    [][/\ pc = "start" => trending = <<>>
       /\ Len(trending') >= Len(trending)
       /\ \A i \in 1..Len(trending) :
             /\ trending'[i][1] = trending[i][1]
             /\ trending'[i][2] >= trending[i][2]
       /\ \A i \in 1..Len(trending') : trending'[i][2] \in Nat \ {0}
       /\ trending' # trending
             => /\ pc = "extract"
                /\ Weight(prov) \in {1, 2}
                /\ \A i \in 1..Len(trending') :
                      (trending'[i][2] - WeightOf(trending, trending'[i][1]))
                         % Weight(prov) = 0
      ]_vars

\* C23 witness: a token credited by the web-search provider has been
\* credited again by a later provider, next to tokens credited once
C23_Witness ==
    /\ pc = "qend"
    /\ \E i \in 1..Len(trending) : trending[i][2] = 1
    /\ \E i \in 1..Len(trending) : trending[i][2] >= 3

\* the entity records of a post whose entity list is a list of records
EntityRecords(tweet) == Get(Get(tweet, "entities", Dict(<<>>)), "hashtags", List(<<>>)).xs

\* a post whose text is a string and whose entity list is a list of records
PlainPost(tweet) ==
    /\ IsDict(tweet)
    /\ IsStr(Or(Get(tweet, "full_text", Str(<<>>)), Get(tweet, "text", Str(<<>>))))
    /\ IsDict(Get(tweet, "entities", Dict(<<>>)))
    /\ IsList(Get(Get(tweet, "entities", Dict(<<>>)), "hashtags", List(<<>>)))
    /\ \A i \in 1..Len(EntityRecords(tweet)) : IsDict(EntityRecords(tweet)[i])

\* the tokens of a post: those of its text, then one for every entity record
\* that has a tag text
PostTokens(tweet) ==
    LET text == Or(Get(tweet, "full_text", Str(<<>>)), Get(tweet, "text", Str(<<>>)))
        tagged == SelectSeq(EntityRecords(tweet),
                            LAMBDA h : Truthy(Get(h, "text", Str(<<>>))))
    IN  FindAll(text.s)
           \o [i \in 1..Len(tagged) |-> <<"#">> \o PyStr(Get(tagged[i], "text", Str(<<>>)))]

CountIn(seq, x) == Cardinality({i \in 1..Len(seq) : seq[i] = x})

RECURSIVE PostsTokens(_)
PostsTokens(tweets) ==
    IF tweets = <<>> THEN <<>>
    ELSE PostTokens(Head(tweets)) \o PostsTokens(Tail(tweets))

\* C27: while the posts of the microblog provider are processed, every
\* increment of the tally is for a token of the post's text or of an entity
\* record that has a tag text; an entity record whose tag text is empty or
\* missing adds nothing: it neither credits a token left from an earlier
\* entity, post or query, nor ends the run.
C27_OwnTokensOnly ==
    [][(/\ pc = "extract"
        /\ prov = Twitter
        /\ \A i \in 1..Len(items[Twitter]) : PlainPost(items[Twitter][i]))
          => /\ pc' # "raised"
             /\ \A tok \in TallyTokens(trending') :
                   WeightOf(trending', tok) - WeightOf(trending, tok)
                      = 2 * CountIn(PostsTokens(items[Twitter]), tok)
      ]_vars

\* C29: an attempt that returns without raising but yields no run handle is
\* treated like a failed attempt: while attempts remain it is followed by a
\* backoff wait and a further attempt of the same pair.
C29_NoHandleIsFailure ==
    [][(pc = "returned" /\ ~Truthy(run[prov]) /\ attempt < APIFY_CALL_RETRIES)
          => /\ pc' = "backoff"
             /\ prov' = prov
             /\ qi' = qi
      ]_vars

\* C28: every provider invocation carries a non-empty search phrase, and two
\* distinct normalized queries of a run never have the same search phrase.
C28_SearchPhrases ==
    pc = "call"
       => /\ \A i \in 1..Len(normalized) : SearchPhrase(normalized[i]) # <<>>
          /\ \A i, j \in 1..Len(normalized) :
                i # j => SearchPhrase(normalized[i]) # SearchPhrase(normalized[j])

\* C30: a run over n normalized queries ends having counted every query as
\* processed exactly once (processed = n at the end), a query being counted
\* when its loop body is entered, and no retry loop makes more than 3
\* invocations.
C30_AllProcessed ==
    /\ calls <= APIFY_CALL_RETRIES
    /\ pc \in {"done", "raised"} => qi = Len(normalized)

\* C25: in fetch_all_parallel each key of the result mapping is written by
\* the completion of exactly one worker: when a worker's result is recorded
\* under a key, no other worker's result has been recorded under that key,
\* so the mapping returned does not depend on the order in which the workers
\* complete.
C25_SingleWriterPerKey ==
    [][\A i \in 1..Len(futures) :
          (ppc = "collect" /\ Len(futures') = Len(futures)
             /\ futures[i] # "collected" /\ futures'[i] = "collected")
             => \A j \in 1..Len(futures) :
                   (j # i /\ queries[j] = queries[i]) => futures[j] # "collected"
      ]_vars

\* C26: normalize_text lowercases, so the queries to process are in lower
\* case and no two of them differ only in letter case: raw queries that
\* differ only in case become one query.
C26_CaseFolded ==
    /\ \A i \in 1..Len(to_process) : to_process[i] = Lower(to_process[i])
    /\ \A i, j \in 1..Len(to_process) :
          i # j => Lower(to_process[i]) # Lower(to_process[j])

\* ------------------------------------------------------------------------
\* Properties of the normalizer on records
\* ------------------------------------------------------------------------
\* the fields of the priority list of the specification that record r holds
\* as a non-empty string
PriorityFields == <<"title", "text", "query", "q", "searchQuery", "snippet", "name">>
PriorityHeld(r) ==
    SelectSeq(PriorityFields,
              LAMBDA key : HasKey(r, key) /\ IsStr(Get(r, key, None))
                              /\ Strip(Get(r, key, None).s) # <<>>)

\* C22: for a record the normalizer returns the trimmed value of the first
\* of the fields title, text, query, q, searchQuery, snippet, name that holds
\* a non-empty string; only if none of the seven does it applies the URL
\* rule, and last it stringifies the record.
C22_FieldPriority ==
    query # Unset
       => IF PriorityHeld(tag) # <<>>
          THEN query = Str(Strip(Get(tag, Head(PriorityHeld(tag)), None).s))
          ELSE IF UrlRule(tag).found
               THEN query = Str(UrlRule(tag).s)
               ELSE query = Str(PyStr(tag))

\* ------------------------------------------------------------------------
\* Two processes, each with its own FileCache on the same path
\* ------------------------------------------------------------------------
\* The text of a file is a sequence of blocks: one per entry of the store
\* it was dumped from and a closing block, so that a store with more entries
\* has the longer text.  A file name is bound to an inode; a process writes
\* through its descriptor to the inode it opened, from offset 0, whatever the
\* name is bound to by then.  Entries are dumped in the order of KeyOrder.
KeyOrder == <<q_ab, q_cd>>
EntryBlock(key, rec) == [key |-> key, rec |-> rec]
CloseBlock == [key |-> <<>>, rec |-> None]

\* json.dump(self._data, f)
Ser(d) ==
    LET keys == SelectSeq(KeyOrder, LAMBDA k : k \in DOMAIN d)
    IN  [i \in 1..Len(keys) |-> EntryBlock(keys[i], d[keys[i]])] \o <<CloseBlock>>

\* text is one JSON document
WellFormed(text) ==
    /\ text # <<>>
    /\ text[Len(text)] = CloseBlock
    /\ \A i \in 1..(Len(text) - 1) : text[i] # CloseBlock

\* json.load(f) inside _load: the store, or the empty store when the text
\* cannot be parsed
LoadText(text) ==
    IF WellFormed(text)
    THEN [k \in {text[i].key : i \in 1..(Len(text) - 1)} |->
             text[CHOOSE i \in 1..(Len(text) - 1) :
                     /\ text[i].key = k
                     /\ \A j \in (i + 1)..(Len(text) - 1) : text[j].key # k].rec]
    ELSE EmptyStore

\* writing text t from offset 0 over the text old
Overlay(old, t) == t \o SubSeq(old, Len(t) + 1, Len(old))

outsideRace == <<token, hashtags, pipelineVars, pc, exc, runVars, recordVars,
                 cacheVars, poolVars, toolVars>>

\* FileCache(path) in process w: __init__ and _load
WriterConstruct(w) ==
    /\ wpc[w] = "new"
    /\ wdata' = [wdata EXCEPT ![w] = IF names.path = NoFile THEN EmptyStore
                                     ELSE LoadText(inodes[names.path])]
    /\ wpc' = [wpc EXCEPT ![w] = "idle"]
    /\ UNCHANGED <<inodes, names, fd, outsideRace>>

\* set(key, value) in process w, up to its call of _save
WriterSet(w) ==
    /\ wpc[w] = "idle"
    /\ \E key \in CacheKeys, value \in Responses :
          wdata' = [wdata EXCEPT ![w] = With(wdata[w], key, Rec(value, ExpiresAt(None, now)))]
    /\ wpc' = [wpc EXCEPT ![w] = "open"]
    /\ UNCHANGED <<inodes, names, fd, outsideRace>>

\* _save in process w: open(tmp, 'w') creates the temporary file, or
\* truncates the one that is there
WriterOpen(w) ==
    /\ wpc[w] = "open"
    /\ IF names.tmp = NoFile
       THEN /\ inodes' = Append(inodes, <<>>)
            /\ names' = [names EXCEPT !.tmp = Len(inodes) + 1]
            /\ fd' = [fd EXCEPT ![w] = Len(inodes) + 1]
       ELSE /\ inodes' = [inodes EXCEPT ![names.tmp] = <<>>]
            /\ names' = names
            /\ fd' = [fd EXCEPT ![w] = names.tmp]
    /\ wpc' = [wpc EXCEPT ![w] = "dump"]
    /\ UNCHANGED <<wdata, outsideRace>>

\* _save in process w: json.dump and the end of the with block; the text
\* reaches the file opened, from offset 0
WriterDump(w) ==
    /\ wpc[w] = "dump"
    /\ inodes' = [inodes EXCEPT ![fd[w]] = Overlay(inodes[fd[w]], Ser(wdata[w]))]
    /\ fd' = [fd EXCEPT ![w] = NoFile]
    /\ wpc' = [wpc EXCEPT ![w] = "replace"]
    /\ UNCHANGED <<wdata, names, outsideRace>>

\* _save in process w: os.replace(tmp, self.path); with no temporary file it
\* raises FileNotFoundError, which _save swallows
WriterReplace(w) ==
    /\ wpc[w] = "replace"
    /\ names' = IF names.tmp = NoFile THEN names
                ELSE [path |-> names.tmp, tmp |-> NoFile]
    /\ wpc' = [wpc EXCEPT ![w] = "done"]
    /\ UNCHANGED <<wdata, inodes, fd, outsideRace>>

InitRace ==
    /\ token = TRUE
    /\ hashtags = <<>>
    /\ pc = "start"
    /\ RunInit
    /\ PipelineInit
    /\ CacheIdle
    /\ PoolIdle
    /\ ToolsIdle
    /\ RecordIdle
    /\ wpc = [w \in Writers |-> "new"]
    /\ wdata = [w \in Writers |-> EmptyStore]
    /\ \/ inodes = <<>> /\ names = [path |-> NoFile, tmp |-> NoFile]
       \/ inodes = <<Ser(StoredBefore)>> /\ names = [path |-> 1, tmp |-> NoFile]
    /\ fd = [w \in Writers |-> NoFile]

NextRace ==
    \E w \in Writers :
       \/ WriterConstruct(w)
       \/ WriterSet(w)
       \/ WriterOpen(w)
       \/ WriterDump(w)
       \/ WriterReplace(w)

SpecRace == InitRace /\ [][NextRace]_vars

\* C24: when both processes have finished their set, the file at the path
\* holds the complete store of one of the two writers: it is there, and its
\* text is the dump of that writer's store, never a mixture of the two dumps
\* or a partial text.
C24_LastWriterWins ==
    (\A w \in Writers : wpc[w] = "done")
       => /\ names.path # NoFile
          /\ \E w \in Writers : inodes[names.path] = Ser(wdata[w])
====
